---- MODULE Spec2Model ----
(***************************************************************************)
(* Umbra Builder (docs/s/js-max/builder/index.js): the tag registry, the   *)
(* dependency resolver, the line tagger, the external source loader, the   *)
(* compiler and the size measurer, as state machines over one Script.      *)
(*                                                                         *)
(* A Script is `lines` (a sequence of Line records) and `tags` (the        *)
(* registry, a sequence of Tag records).  A Tag object is identified by    *)
(* its position in `tags`; a LineTag holds that position and a mode.       *)
(* A comment string is kept as the list of its pieces between runs of      *)
(* spaces, which is what comment.split(/ +/) returns: the string is the    *)
(* pieces joined by one space.  The constructor follows every word by a    *)
(* space, so its comments end in an empty piece, and the empty comment is  *)
(* the single empty piece.                                                 *)
(***************************************************************************)
EXTENDS Integers, Sequences, FiniteSets, Bags, TLC

VARIABLES
    lines,       \* Script.lines
    tags,        \* Script.tags
    pc,          \* position of the build pipeline
    dpc,         \* Tag.dependencies: "idle", "run" or "done"
    dargs,       \* Tag.dependencies: the outermost call's (includeSelf, tag)
    dstack,      \* Tag.dependencies: one frame per active (recursive) call
    doutput,     \* Tag.dependencies: the shared `output` array
    tagsLoaded,  \* loadExternal: the completion counter
    fetch,       \* loadExternal: per tag, where its get(tag.link) promise chain is
    resolved,    \* loadExternal: resolve(this) has been called
    compiled,    \* the compile call that returned last: arguments and result
    mi,          \* measureTags: the position of the tag being measured
    mstage,      \* measureTags: which compile the loop body awaits
    inclusiveLength,  \* measureTags: the local of that name
    mruns,       \* measureTags: the number of completed runs
    prevSizes,   \* the tag sizes as the previous completed run left them
    mcompile,    \* measureTags: the arguments of the compile call it made last
    spliced,     \* loadExternal: the fetched scripts, in the order they were spliced in
    ti,          \* tagLines: the position of the line the loop is at
    tMultilineTags, \* tagLines: the local multilineTags, the open blocks
    calls,       \* compile: the bag of calls waiting for terser, each with its locals
    checked      \* the Builder page: the rows whose box is checked

depVars == <<dpc, dargs, dstack, doutput>>
loadVars == <<tagsLoaded, fetch, resolved, spliced>>
measVars == <<mi, mstage, inclusiveLength, mruns, prevSizes, mcompile>>
tagVars == <<ti, tMultilineTags>>

vars == <<lines, tags, pc, depVars, loadVars, compiled, measVars, tagVars, calls, checked>>

(***************************************************************************)
(* Bounds of the model.                                                    *)
(***************************************************************************)
MaxDefs == 3     \* directive lines of a script in the resolver specification

(***************************************************************************)
(* Values.                                                                 *)
(***************************************************************************)
\* A value that is a string or undefined (a piece of a comment taken by its
\* index, the name of a tag) is a sequence: <<s>> is the string s and <<>> is
\* undefined, the value of an array index past the end.
Undefined == <<>>

Str(s) == <<s>>

AND == 0
OR == 1
ModeUndefined == -1

\* LineTag.Mode[mode]
Mode(mode) ==
    CASE mode = Str("AND") -> AND
      [] mode = Str("OR") -> OR
      [] OTHER -> ModeUndefined

\* new Tag(name, script)
Tag(name) ==
    [name |-> name, description |-> "", size |-> 0,
     requiredTagNames |-> <<>>, link |-> ""]

\* new LineTag(tag, mode)
LineTag(tag, mode) == [tag |-> tag, mode |-> mode]

\* new Line(code, comment)
Line(code, comment) == [code |-> code, comment |-> comment, tags |-> <<>>]

\* the comment the Script constructor builds from the comment words of a line:
\* comment += `${word} ` for every word
Comment(words) == Append(words, "")

\* array[i], 0-based, undefined past the end
At(array, i) == IF i + 1 <= Len(array) THEN Str(array[i + 1]) ELSE Undefined

\* array.join(" ")
RECURSIVE join(_)
join(words) ==
    IF words = <<>> THEN ""
    ELSE IF Len(words) = 1 THEN words[1]
    ELSE words[1] \o " " \o join(Tail(words))

\* array.slice(3).join(" ").trim()
joinTrim(array) ==
    LET rest == IF Len(array) > 3 THEN SubSeq(array, 4, Len(array)) ELSE <<>>
        \* an empty last piece only adds a space that trim removes
        words == SelectSeq(rest, LAMBDA w : w # "")
    IN join(words)

\* this.tags.find((tag) => tag.name == name): the position, 0 when absent
RECURSIVE findFrom(_, _, _)
findFrom(tgs, name, i) ==
    IF i > Len(tgs) THEN 0
    ELSE IF tgs[i].name = name THEN i
    ELSE findFrom(tgs, name, i + 1)

find(tgs, name) == findFrom(tgs, name, 1)

(***************************************************************************)
(* Script.getTags: one directive.                                          *)
(***************************************************************************)
requTagMissingAppends(tgs, t, data) ==
    [tgs EXCEPT ![t].requiredTagNames = Append(@, Str(data))]

requTag(tgs, t, data) ==
    LET requiredTag == find(tgs, Str(data))
    IN IF requiredTag = 0
       THEN tgs
       ELSE [tgs EXCEPT ![t].requiredTagNames = Append(@, tgs[requiredTag].name)]

getTagsLine(tgs, line) ==
    LET comment == line.comment   \* line.comment.split(/ +/)
        operator == At(comment, 0)
        property == At(comment, 1)
        tagName == At(comment, 2)
        data == joinTrim(comment)
    IN IF operator # Str("UTAGDEF") THEN tgs
       ELSE LET found == find(tgs, tagName)
                tgs1 == IF found = 0 THEN Append(tgs, Tag(tagName)) ELSE tgs
                t == IF found = 0 THEN Len(tgs1) ELSE found
            IN CASE property = Str("DESC") -> [tgs1 EXCEPT ![t].description = data]
                 [] property = Str("REQU") -> requTag(tgs1, t, data)
                 [] property = Str("LINK") -> [tgs1 EXCEPT ![t].link = data]
                 [] OTHER -> tgs1

RECURSIVE getTagsFrom(_, _, _)
getTagsFrom(ls, i, tgs) ==
    IF i > Len(ls) THEN tgs
    ELSE getTagsFrom(ls, i + 1, getTagsLine(tgs, ls[i]))

getTags(ls, tgs) == getTagsFrom(ls, 1, tgs)

(***************************************************************************)
(* Tag.dependencies(includeSelf, tag, output), as a function.  Tags are    *)
(* positions in the registry `tgs`; `output` is the array the recursive    *)
(* calls share (every recursive call has includeSelf = true and so returns *)
(* the array it was given).                                                *)
(***************************************************************************)
\* let toAdd = [tag]; if (requiredTag) toAdd.push(requiredTag)
toAddSelfOnly(tgs, tag) == <<tag>>

toAddInit(tgs, tag) ==
    LET requiredTag == find(tgs, Str("REQUIRED"))
    IN IF requiredTag # 0 THEN <<tag, requiredTag>> ELSE <<tag>>

includes(array, x) == \E i \in 1..Len(array) : array[i] = x

\* output.filter((outputTag) => outputTag != tag)
filterSelf(output, tag) == SelectSeq(output, LAMBDA outputTag : outputTag # tag)

RECURSIVE depWhile(_, _, _), depFor(_, _, _)
\* while (toAdd.length > 0) { ... }
depWhile(tgs, toAdd, output) ==
    IF toAdd = <<>> THEN output
    ELSE LET addingTag == Head(toAdd)
         IN IF includes(output, addingTag)
            THEN depWhile(tgs, Tail(toAdd), output)
            ELSE depWhile(tgs, Tail(toAdd),
                          depFor(tgs, tgs[addingTag].requiredTagNames,
                                 Append(output, addingTag)))

\* for (const requiredTagName of addingTag.requiredTagNames) { ... }
depFor(tgs, requiredTagNames, output) ==
    IF requiredTagNames = <<>> THEN output
    ELSE LET requiredTag == find(tgs, Head(requiredTagNames))
         IN IF requiredTag = 0
            THEN depFor(tgs, Tail(requiredTagNames), output)
            ELSE depFor(tgs, Tail(requiredTagNames),
                        depWhile(tgs, toAddInit(tgs, requiredTag), output))

dependencies(tgs, includeSelf, tag, output) ==
    LET out == depWhile(tgs, toAddInit(tgs, tag), output)
    IN IF ~includeSelf THEN filterSelf(out, tag) ELSE out

\* the names of a list of tags
names(tgs, list) == [i \in 1..Len(list) |-> tgs[list[i]].name]

(***************************************************************************)
(* Tag.dependencies, step by step: one frame per active call, `toAdd` its  *)
(* worklist, `adding` the tag whose requirements its for loop is walking   *)
(* (0 outside the for loop), `reqs` the names that loop has still to see.  *)
(***************************************************************************)
Frame(tgs, tag) == [tag |-> tag, toAdd |-> toAddInit(tgs, tag), adding |-> 0, reqs |-> <<>>]

Top == dstack[Len(dstack)]
SetTop(f) == [dstack EXCEPT ![Len(dstack)] = f]

\* a call tag.dependencies(includeSelf) on a tag of the registry
DepCall ==
    /\ pc = "gotTags"
    /\ dpc = "idle"
    /\ \E tag \in 1..Len(tags), includeSelf \in BOOLEAN :
          /\ dargs' = [includeSelf |-> includeSelf, tag |-> tag]
          /\ dstack' = <<Frame(tags, tag)>>
    /\ doutput' = <<>>
    /\ dpc' = "run"
    /\ UNCHANGED <<tagVars, calls, checked, loadVars, compiled, measVars, lines, tags, pc>>

\* const addingTag = toAdd.shift(); if (output.includes(addingTag)) continue;
\* output.push(addingTag)
DepShiftSkipsGate ==
    /\ dpc = "run"
    /\ Top.adding = 0
    /\ Top.toAdd # <<>>
    /\ LET addingTag == Head(Top.toAdd)
       IN /\ doutput' = Append(doutput, addingTag)
          /\ dstack' = SetTop([Top EXCEPT !.toAdd = Tail(@), !.adding = addingTag,
                                          !.reqs = tags[addingTag].requiredTagNames])
    /\ UNCHANGED <<tagVars, calls, checked, loadVars, compiled, measVars, lines, tags, pc, dpc, dargs>>

DepShift ==
    /\ dpc = "run"
    /\ Top.adding = 0
    /\ Top.toAdd # <<>>
    /\ LET addingTag == Head(Top.toAdd)
       IN IF includes(doutput, addingTag)
          THEN /\ dstack' = SetTop([Top EXCEPT !.toAdd = Tail(@)])
               /\ doutput' = doutput
          ELSE /\ doutput' = Append(doutput, addingTag)
               /\ dstack' = SetTop([Top EXCEPT !.toAdd = Tail(@), !.adding = addingTag,
                                               !.reqs = tags[addingTag].requiredTagNames])
    /\ UNCHANGED <<tagVars, calls, checked, loadVars, compiled, measVars, lines, tags, pc, dpc, dargs>>

\* (a resolver that adds a required tag without resolving its own requirements)
DepRequireNoRecursion ==
    /\ dpc = "run"
    /\ Top.adding # 0
    /\ Top.reqs # <<>>
    /\ LET requiredTag == find(tags, Head(Top.reqs))
       IN doutput' = IF requiredTag = 0 \/ includes(doutput, requiredTag) THEN doutput
                     ELSE Append(doutput, requiredTag)
    /\ dstack' = SetTop([Top EXCEPT !.reqs = Tail(@)])
    /\ UNCHANGED <<tagVars, calls, checked, loadVars, compiled, measVars, lines, tags, pc, dpc, dargs>>

\* the next requiredTagName: an unresolved name is skipped, a resolved one is
\* a recursive call this.dependencies(true, requiredTag, output)
DepRequire ==
    /\ dpc = "run"
    /\ Top.adding # 0
    /\ Top.reqs # <<>>
    /\ LET requiredTag == find(tags, Head(Top.reqs))
           rest == SetTop([Top EXCEPT !.reqs = Tail(@)])
       IN dstack' = IF requiredTag = 0 THEN rest
                    ELSE Append(rest, Frame(tags, requiredTag))
    /\ UNCHANGED <<tagVars, calls, checked, loadVars, compiled, measVars, lines, tags, pc, dpc, dargs, doutput>>

\* the for loop is over: back to the while loop
DepForEnd ==
    /\ dpc = "run"
    /\ Top.adding # 0
    /\ Top.reqs = <<>>
    /\ dstack' = SetTop([Top EXCEPT !.adding = 0])
    /\ UNCHANGED <<tagVars, calls, checked, loadVars, compiled, measVars, lines, tags, pc, dpc, dargs, doutput>>

\* the while loop is over: a recursive call returns output to its caller, the
\* outermost call filters and returns
DepReturn ==
    /\ dpc = "run"
    /\ Top.adding = 0
    /\ Top.toAdd = <<>>
    /\ IF Len(dstack) > 1
       THEN /\ dstack' = SubSeq(dstack, 1, Len(dstack) - 1)
            /\ UNCHANGED <<doutput, dpc>>
       ELSE /\ dstack' = <<>>
            /\ doutput' = IF ~dargs.includeSelf THEN filterSelf(doutput, dargs.tag)
                          ELSE doutput
            /\ dpc' = "done"
    /\ UNCHANGED <<tagVars, calls, checked, loadVars, compiled, measVars, lines, tags, pc, dargs>>

DepStep == DepShift \/ DepRequire \/ DepForEnd \/ DepReturn

(***************************************************************************)
(* The parts of the state an operation has not touched yet.                *)
(***************************************************************************)
DepIdle ==
    /\ dpc = "idle"
    /\ dargs = [includeSelf |-> TRUE, tag |-> 0]
    /\ dstack = <<>>
    /\ doutput = <<>>

LoadIdle == tagsLoaded = 0 /\ fetch = <<>> /\ resolved = FALSE /\ spliced = <<>>

TagIdle == ti = 0 /\ tMultilineTags = <<>>

NoCompile ==
    [called |-> FALSE, includedTagNames |-> <<>>, uglified |-> FALSE,
     beautified |-> FALSE, emitted |-> <<>>, ok |-> TRUE, text |-> ""]

CompileIdle == compiled = NoCompile /\ calls = EmptyBag /\ checked = {}

NoMeasureCompile == [called |-> FALSE, uglified |-> FALSE, beautified |-> FALSE]

MeasureIdle ==
    /\ mi = 0
    /\ mstage = "idle"
    /\ inclusiveLength = 0
    /\ mruns = 0
    /\ prevSizes = <<>>
    /\ mcompile = NoMeasureCompile

(***************************************************************************)
(* Script.getTags, the whole pass.                                         *)
(***************************************************************************)
GetTags ==
    /\ pc = "constructed"
    /\ tags' = getTags(lines, tags)
    /\ pc' = "gotTags"
    /\ UNCHANGED <<tagVars, calls, checked, lines, depVars, loadVars, compiled, measVars>>

(***************************************************************************)
(* The resolver specification: a script of tag definitions is scanned by   *)
(* getTags, then dependencies is called on one of its tags.                *)
(***************************************************************************)
Def(property, tagName, data) == Line("", Comment(<<"UTAGDEF", property, tagName>> \o data))

DefPool ==
    {Def("REQU", "A", <<"A">>), Def("REQU", "A", <<"B">>), Def("REQU", "B", <<"A">>),
     Def("REQU", "A", <<"Z">>), Def("REQU", "A", <<"REQUIRED">>),
     Def("REQU", "REQUIRED", <<"B">>), Def("DESC", "B", <<"the", "B", "feature">>),
     Def("DESC", "REQUIRED", <<>>)}

SeqsUpTo(S, n) == UNION {[1..k -> S] : k \in 0..n}

\* new Script(script).lines for the scripts of up to n lines taken from S:
\* the constructor makes a Line of every piece of script.split(/[\r\n]+/),
\* and "".split gives [""], so the empty script has one empty line
ScriptsUpTo(S, n) ==
    {IF ls = <<>> THEN <<Line("", Comment(<<>>))>> ELSE ls : ls \in SeqsUpTo(S, n)}

InitDeps ==
    /\ lines \in ScriptsUpTo(DefPool, MaxDefs)
    /\ tags = <<>>
    /\ pc = "constructed"
    /\ DepIdle /\ LoadIdle /\ TagIdle /\ CompileIdle /\ MeasureIdle

NextDeps == GetTags \/ DepCall \/ DepShift \/ DepRequire \/ DepForEnd \/ DepReturn

SpecDeps == InitDeps /\ [][NextDeps]_vars

\* dependencies runs synchronously: a started call keeps taking steps
FairSpecDeps == SpecDeps /\ WF_vars(DepStep)

\* the step machine returns what the function returns
DepMachineAgrees ==
    dpc = "done" => doutput = dependencies(tags, dargs.includeSelf, dargs.tag, <<>>)

(***************************************************************************)
(* Properties of the resolver.                                             *)
(***************************************************************************)
Range(array) == {array[i] : i \in 1..Len(array)}

Count(array, x) == Cardinality({i \in 1..Len(array) : array[i] = x})

NoDuplicates(array) == \A i, j \in 1..Len(array) : array[i] = array[j] => i = j

RequiredTag == find(tags, Str("REQUIRED"))

\* the registry tags that tag t names in its requiredTagNames
Required(t) == {find(tags, n) : n \in Range(tags[t].requiredTagNames)} \ {0}

\* the reference transitive closure: the least set that holds S and is closed
\* under Required
RECURSIVE Closure(_)
Closure(S) ==
    LET next == S \cup UNION {Required(t) : t \in S}
    IN IF next = S THEN S ELSE Closure(next)

Roots(t) == {t} \cup ({RequiredTag} \ {0})

\* C4 as stated: dependencies(T, true) contains T, dependencies(T, false) does
\* not, and the result always contains REQUIRED exactly once when REQUIRED is
\* defined.
C4_Original ==
    dpc = "done" =>
        /\ dargs.includeSelf => includes(doutput, dargs.tag)
        /\ ~dargs.includeSelf => ~includes(doutput, dargs.tag)
        /\ RequiredTag # 0 => Count(doutput, RequiredTag) = 1

\* C4 as amended: dependencies(T, true) contains T, dependencies(T, false) does
\* not (also when T requires itself through a cycle), and the result contains
\* REQUIRED exactly once when REQUIRED is defined, except that
\* dependencies(REQUIRED, false) does not contain REQUIRED.
C4_SelfAndRequired ==
    dpc = "done" =>
        /\ dargs.includeSelf => includes(doutput, dargs.tag)
        /\ ~dargs.includeSelf => ~includes(doutput, dargs.tag)
        /\ RequiredTag # 0 =>
              Count(doutput, RequiredTag) =
                  IF ~dargs.includeSelf /\ dargs.tag = RequiredTag THEN 0 ELSE 1

\* dependencies(T, false) has returned for a T other than REQUIRED that is
\* required by itself through a cycle, in a registry that defines REQUIRED
C4_Witness ==
    /\ dpc = "done"
    /\ ~dargs.includeSelf
    /\ RequiredTag # 0
    /\ dargs.tag # RequiredTag
    /\ dargs.tag \in Closure(Required(dargs.tag))
    /\ includes(doutput, RequiredTag)

\* C5: the tags dependencies(T, true) returns are exactly the tags reachable
\* from T, or from REQUIRED when it is defined, along resolved requirements.
C5_Closure ==
    (dpc = "done" /\ dargs.includeSelf) => Range(doutput) = Closure(Roots(dargs.tag))

\* dependencies(T, true) has returned a tag that is two requirements away from
\* every root
C5_Witness ==
    /\ dpc = "done"
    /\ dargs.includeSelf
    /\ \E x \in Range(doutput) :
          /\ x \notin Roots(dargs.tag)
          /\ \A r \in Roots(dargs.tag) : x \notin Required(r)

\* C6: a dependencies call that has started returns, and its output never
\* holds a tag twice, also on cyclic requirement graphs and duplicate names.
C6_Terminates ==
    /\ (dpc = "run") ~> (dpc = "done")
    /\ [](NoDuplicates(doutput))

\* dependencies has returned two tags that require each other
C6_Witness ==
    /\ dpc = "done"
    /\ \E a, b \in Range(doutput) : a # b /\ b \in Required(a) /\ a \in Required(b)

\* the registry after the first i lines
Prefix(i) == getTags(SubSeq(lines, 1, i), <<>>)

IsRequ(line) ==
    Len(line.comment) >= 4 /\ line.comment[1] = "UTAGDEF" /\ line.comment[2] = "REQU"

\* a REQU directive whose required name is the name of no tag in the registry
\* as the directive is processed
Unresolved(i) ==
    /\ IsRequ(lines[i])
    /\ find(Prefix(i - 1), Str(joinTrim(lines[i].comment))) = 0
    /\ joinTrim(lines[i].comment) # lines[i].comment[3]

\* C10: an unresolved REQU directive adds no entry to any requiredTagNames;
\* after getTags every required name is the name of a registry tag, and a
\* dependencies call never returns a tag of an unresolved name.
C10_NoDanglingRequirement ==
    pc = "gotTags" =>
        /\ \A i \in 1..Len(lines) : Unresolved(i) =>
              \A t \in 1..Len(Prefix(i)) :
                 Prefix(i)[t].requiredTagNames =
                    IF t <= Len(Prefix(i - 1)) THEN Prefix(i - 1)[t].requiredTagNames
                    ELSE <<>>
        /\ \A t \in 1..Len(tags) : \A n \in Range(tags[t].requiredTagNames) :
              find(tags, n) # 0
        /\ dpc = "done" =>
              \A i \in 1..Len(lines) :
                 (IsRequ(lines[i]) /\ find(tags, Str(joinTrim(lines[i].comment))) = 0)
                    => ~includes(names(tags, doutput), Str(joinTrim(lines[i].comment)))

\* getTags has skipped an unresolved REQU directive of a tag and a later
\* directive of that tag has been processed; dependencies has returned for it
C10_Witness ==
    /\ pc = "gotTags"
    /\ dpc = "done"
    /\ \E i \in 1..Len(lines) :
          /\ Unresolved(i)
          /\ i < Len(lines)
          /\ tags[dargs.tag].name = Str(lines[i].comment[3])
          /\ tags[dargs.tag].requiredTagNames # <<>>

(***************************************************************************)
(* Script.tagLines: one line of the loop, with the open-block stack        *)
(* multilineTags before it; the line with its new associations and the     *)
(* stack after it.                                                         *)
(***************************************************************************)
\* the associations a directive gives its own line: END and LINE tag it
ownLineTagsEndExclusive(property, new) ==
    CASE property = Str("LINE") -> <<new>>
      [] OTHER -> <<>>

ownLineTags(property, new) ==
    CASE property = Str("END") -> <<new>>
      [] property = Str("LINE") -> <<new>>
      [] OTHER -> <<>>

RECURSIVE closeBlockPopsLast(_, _, _)
closeBlockPopsLast(tgs, multilineTags, tag) ==
    IF multilineTags = <<>> THEN <<>>
    ELSE LET last == multilineTags[Len(multilineTags)]
             front == SubSeq(multilineTags, 1, Len(multilineTags) - 1)
         IN IF tgs[last.tag].name = tgs[tag].name THEN front
            ELSE Append(closeBlockPopsLast(tgs, front, tag), last)

\* multilineTags.filter((lineTag) => lineTag.tag.name != tag.name)
closeBlock(tgs, multilineTags, tag) ==
    SelectSeq(multilineTags, LAMBDA lineTag : tgs[lineTag.tag].name # tgs[tag].name)

tagLine(tgs, line, multilineTags) ==
    LET comment == line.comment   \* line.comment.split(/ +/)
        operator == At(comment, 0)
        property == At(comment, 1)
        tagName == At(comment, 2)
        mode == At(comment, 3)
        tag == find(tgs, tagName)
    IN IF operator = Str("UTAGSET")
       THEN IF tag = 0
            THEN \* continue: the line gets no association at all
                 [line |-> line, multilineTags |-> multilineTags]
            ELSE LET new == LineTag(tag, Mode(mode))
                     stack ==
                        CASE property = Str("START") -> Append(multilineTags, new)
                          [] property = Str("END") -> closeBlock(tgs, multilineTags, tag)
                          [] OTHER -> multilineTags
                     lineTags == ownLineTags(property, new)
                 IN [line |-> [line EXCEPT !.tags = @ \o lineTags \o stack],
                     multilineTags |-> stack]
       ELSE [line |-> [line EXCEPT !.tags = @ \o multilineTags],
             multilineTags |-> multilineTags]

RECURSIVE tagLinesFrom(_, _, _, _)
tagLinesFrom(tgs, ls, i, multilineTags) ==
    IF i > Len(ls) THEN ls
    ELSE LET r == tagLine(tgs, ls[i], multilineTags)
         IN tagLinesFrom(tgs, [ls EXCEPT ![i] = r.line], i + 1, r.multilineTags)

tagLines(tgs, ls) == tagLinesFrom(tgs, ls, 1, <<>>)

(***************************************************************************)
(* The same loop, one line a step: the call sets the stack up, each step   *)
(* is one pass of the loop body, and the call returns after the last line. *)
(***************************************************************************)
TagLinesCall ==
    /\ pc = "loading"
    /\ resolved
    /\ pc' = "tagging"
    /\ ti' = 0
    /\ tMultilineTags' = <<>>
    /\ UNCHANGED <<lines, tags, depVars, loadVars, compiled, measVars, calls, checked>>

TagLinesStep ==
    /\ pc = "tagging"
    /\ ti < Len(lines)
    /\ LET r == tagLine(tags, lines[ti + 1], tMultilineTags)
       IN /\ lines' = [lines EXCEPT ![ti + 1] = r.line]
          /\ tMultilineTags' = r.multilineTags
    /\ ti' = ti + 1
    /\ UNCHANGED <<tags, pc, depVars, loadVars, compiled, measVars, calls, checked>>

TagLinesReturn ==
    /\ pc = "tagging"
    /\ ti = Len(lines)
    /\ pc' = "tagged"
    /\ UNCHANGED <<lines, tags, tagVars, depVars, loadVars, compiled, measVars, calls, checked>>

(***************************************************************************)
(* Script.compile: the inclusion decision of one line.                     *)
(***************************************************************************)
RECURSIVE includeFromNoBreak(_, _, _, _, _)
includeFromNoBreak(tgs, lineTags, i, includedTagNames, includeLine) ==
    IF i > Len(lineTags) THEN includeLine
    ELSE LET lineTag == lineTags[i]
             in == includes(includedTagNames, tgs[lineTag.tag].name)
         IN IF lineTag.mode = AND
            THEN includeFromNoBreak(tgs, lineTags, i + 1, includedTagNames, in)
            ELSE includeFromNoBreak(tgs, lineTags, i + 1, includedTagNames,
                                    in \/ includeLine)

RECURSIVE includeFromOrClears(_, _, _, _, _)
includeFromOrClears(tgs, lineTags, i, includedTagNames, includeLine) ==
    IF i > Len(lineTags) THEN includeLine
    ELSE LET lineTag == lineTags[i]
             in == includes(includedTagNames, tgs[lineTag.tag].name)
         IN IF lineTag.mode = AND /\ ~in
            THEN FALSE
            ELSE includeFromOrClears(tgs, lineTags, i + 1, includedTagNames, in)

RECURSIVE includeFromAndInverted(_, _, _, _, _)
includeFromAndInverted(tgs, lineTags, i, includedTagNames, includeLine) ==
    IF i > Len(lineTags) THEN includeLine
    ELSE LET lineTag == lineTags[i]
             in == includes(includedTagNames, tgs[lineTag.tag].name)
         IN IF lineTag.mode = AND
            THEN IF ~in
                 THEN includeFromAndInverted(tgs, lineTags, i + 1, includedTagNames, TRUE)
                 ELSE FALSE
            ELSE includeFromAndInverted(tgs, lineTags, i + 1, includedTagNames,
                                        includeLine \/ in)

\* for (const lineTag of line.tags) { ... }, from the i-th association on
RECURSIVE includeFrom(_, _, _, _, _)
includeFrom(tgs, lineTags, i, includedTagNames, includeLine) ==
    IF i > Len(lineTags) THEN includeLine
    ELSE LET lineTag == lineTags[i]
         IN IF lineTag.mode = AND
            THEN IF includes(includedTagNames, tgs[lineTag.tag].name)
                 THEN includeFrom(tgs, lineTags, i + 1, includedTagNames, TRUE)
                 ELSE FALSE   \* includeLine = false; break
            ELSE IF includes(includedTagNames, tgs[lineTag.tag].name)
                 THEN includeFrom(tgs, lineTags, i + 1, includedTagNames, TRUE)
                 ELSE includeFrom(tgs, lineTags, i + 1, includedTagNames, includeLine)

includeLineInitTrue(tgs, line, includedTagNames) ==
    includeFrom(tgs, line.tags, 1, includedTagNames, TRUE)

\* let includeLine = false; for (...) {...}
includeLine(tgs, line, includedTagNames) ==
    includeFrom(tgs, line.tags, 1, includedTagNames, FALSE)

\* the positions of the lines the loop emits, in order
emittedLines(tgs, ls, includedTagNames) ==
    SelectSeq([i \in 1..Len(ls) |-> i],
              LAMBDA i : includeLine(tgs, ls[i], includedTagNames))

(***************************************************************************)
(* The text compile builds and the two transforms applied to it.  The text *)
(* is kept line by line: `output` is the list of the emitted lines' code   *)
(* and (when shown) comment, and render is the string.                     *)
(***************************************************************************)
RECURSIVE concat(_)
concat(strings) == IF strings = <<>> THEN "" ELSE Head(strings) \o concat(Tail(strings))

\* `${line.code}${!uglified && line.comment ? `${line.code ? " " : ""}// ${line.comment}` : ""}\n`
chunk(line, uglified) ==
    line.code
    \o (IF ~uglified /\ join(line.comment) # ""
        THEN (IF line.code # "" THEN " " ELSE "") \o "// " \o join(line.comment)
        ELSE "")
    \o "\n"

\* terser and prettier on the code this model's scripts are written in: a
\* line's code is one assignment statement, nothing, or a stray closing brace
\* (which neither parser accepts)
Parses(code) == code # "} "

Expression(code) ==
    CASE code = "x=1; " -> "x=1"
      [] code = "y=2; " -> "y=2"
      [] code = "z=3; " -> "z=3"
      [] OTHER -> ""

Pretty(code) ==
    CASE code = "x=1; " -> "x = 1"
      [] code = "y=2; " -> "y = 2"
      [] code = "z=3; " -> "z = 3"
      [] OTHER -> ""

RECURSIVE joinWith(_, _)
joinWith(strings, sep) ==
    IF strings = <<>> THEN ""
    ELSE IF Len(strings) = 1 THEN strings[1]
    ELSE strings[1] \o sep \o joinWith(Tail(strings), sep)

Expressions(ls) ==
    LET all == [i \in 1..Len(ls) |-> Expression(ls[i].code)]
    IN SelectSeq(all, LAMBDA e : e # "")

\* (await terser.minify(output)).code: comments and line ends go, the
\* statements are joined into one sequence expression; a syntax error throws
minify(ls) ==
    IF \E i \in 1..Len(ls) : ~Parses(ls[i].code)
    THEN [ok |-> FALSE, code |-> ""]
    ELSE [ok |-> TRUE,
          code |-> IF Expressions(ls) = <<>> THEN ""
                   ELSE joinWith(Expressions(ls), ",") \o ";"]

\* the words of a comment, without the space the constructor ends it with
trimmed(comment) == joinWith(SelectSeq(comment, LAMBDA w : w # ""), " ")

prettyLine(line) ==
    IF line.code # ""
    THEN Pretty(line.code) \o ";"
         \o (IF trimmed(line.comment) # "" THEN " // " \o trimmed(line.comment) ELSE "")
         \o "\n"
    ELSE IF trimmed(line.comment) # "" THEN "// " \o trimmed(line.comment) \o "\n"
    ELSE ""

\* prettier.format(output, ...): of the minified text when uglified, else of
\* the emitted lines with their comments; a syntax error throws
format(ls, uglified) ==
    IF \E i \in 1..Len(ls) : ~Parses(ls[i].code)
    THEN [ok |-> FALSE, text |-> ""]
    ELSE IF uglified
    THEN LET pretty == SelectSeq([i \in 1..Len(ls) |-> Pretty(ls[i].code)],
                                 LAMBDA e : e # "")
         IN [ok |-> TRUE,
             text |-> IF pretty = <<>> THEN ""
                      ELSE IF Len(pretty) = 1 THEN pretty[1] \o ";\n"
                      ELSE "(" \o joinWith(pretty, "), (") \o ");\n"]
    ELSE [ok |-> TRUE, text |-> concat([i \in 1..Len(ls) |-> prettyLine(ls[i])])]

\* the for loop of compile: the positions emitted and the lines of `output`
compileOutput(tgs, ls, includedTagNames) ==
    LET emitted == emittedLines(tgs, ls, includedTagNames)
    IN [emitted |-> emitted, output |-> [i \in 1..Len(emitted) |-> ls[emitted[i]]]]

compileRestFallsBack(output, uglified, beautified) ==
    LET raw == concat([i \in 1..Len(output) |-> chunk(output[i], uglified)])
        min == minify(output)
        fmt == format(output, uglified)
    IN [ok |-> TRUE,
        text |-> IF beautified /\ fmt.ok THEN fmt.text
                 ELSE IF uglified /\ min.ok THEN min.code
                 ELSE raw]

\* the body of compile after the loop: whether the call returned (ok) or
\* threw, and the text returned
compileRest(output, uglified, beautified) ==
    LET raw == concat([i \in 1..Len(output) |-> chunk(output[i], uglified)])
        min == minify(output)
        fmt == format(output, uglified)
    IN IF uglified /\ ~min.ok THEN [ok |-> FALSE, text |-> ""]
       ELSE IF beautified /\ ~fmt.ok THEN [ok |-> FALSE, text |-> ""]
       ELSE [ok |-> TRUE,
             text |-> IF beautified THEN fmt.text
                      ELSE IF uglified THEN min.code
                      ELSE raw]

\* async compile(includedTagNames, uglified, beautified), from the call to
\* its settlement: the emitted line positions, ok and the text
compile(tgs, ls, includedTagNames, uglified, beautified) ==
    LET o == compileOutput(tgs, ls, includedTagNames)
        r == compileRest(o.output, uglified, beautified)
    IN [emitted |-> o.emitted, ok |-> r.ok, text |-> r.text]

(***************************************************************************)
(* Script.loadExternal.  The executor walks the registry at once: a tag    *)
(* without a link is counted, a tag with a link starts get(tag.link).  The *)
(* callbacks of each chain run later, one at a time: then (or catch), and  *)
(* after it finally.                                                       *)
(***************************************************************************)
\* the string of a name, as a template literal `${name}` and a property key make it
String(name) == IF name = Undefined THEN "undefined" ELSE name[1]

RECURSIVE loadLoopCountsLinked(_, _, _)
loadLoopCountsLinked(tgs, i, st) ==
    IF i > Len(tgs) THEN st
    ELSE loadLoopCountsLinked(tgs, i + 1,
            [tagsLoaded |-> st.tagsLoaded + 1,
             resolved |-> st.resolved \/ (st.tagsLoaded + 1 >= Len(tgs)),
             fetch |-> Append(st.fetch, IF tgs[i].link = "" THEN "none" ELSE "pending")])

RECURSIVE loadLoop(_, _, _)
\* for (const tag of this.tags) { ... }: st is the loop's state before tag i
loadLoop(tgs, i, st) ==
    IF i > Len(tgs) THEN st
    ELSE IF tgs[i].link = ""
    THEN loadLoop(tgs, i + 1,
                  [tagsLoaded |-> st.tagsLoaded + 1,
                   resolved |-> st.resolved \/ (st.tagsLoaded + 1 >= Len(tgs)),
                   fetch |-> Append(st.fetch, "none")])
    ELSE loadLoop(tgs, i + 1, [st EXCEPT !.fetch = Append(@, "pending")])

LoadExternal ==
    /\ pc = "gotTags"
    /\ LET st == loadLoop(tags, 1, [tagsLoaded |-> 0, resolved |-> FALSE, fetch |-> <<>>])
       IN /\ tagsLoaded' = st.tagsLoaded
          /\ resolved' = st.resolved
          /\ fetch' = st.fetch
    /\ pc' = "loading"
    /\ UNCHANGED <<tagVars, calls, checked, lines, tags, depVars, spliced, compiled, measVars>>

\* what a linked URL may serve: the lines new Script(text) makes of it
FetchedPool ==
    {<<Line("x=1; ", Comment(<<>>))>>,
     <<Line("y=2; ", Comment(<<"UTAGSET", "LINE", "B", "AND">>)),
       Line("z=3; ", Comment(<<>>))>>}

\* .then((script) => { ... }): the fetched lines go in between two synthetic
\* block markers
FetchSucceed ==
    \E t \in 1..Len(fetch), script \in FetchedPool :
        /\ fetch[t] = "pending"
        /\ lines' = Append(Append(lines, Line("", <<"UTAGSET", "START", String(tags[t].name)>>))
                           \o script,
                           Line("", <<"UTAGSET", "END", String(tags[t].name)>>))
        /\ fetch' = [fetch EXCEPT ![t] = "then"]
        /\ spliced' = Append(spliced, [tag |-> t, script |-> script])
        /\ UNCHANGED <<tagVars, calls, checked, tags, pc, depVars, tagsLoaded, resolved, compiled, measVars>>

\* .catch((err) => console.error(...))
FetchFail ==
    \E t \in 1..Len(fetch) :
        /\ fetch[t] = "pending"
        /\ fetch' = [fetch EXCEPT ![t] = "caught"]
        /\ UNCHANGED <<tagVars, calls, checked, lines, tags, pc, depVars, tagsLoaded, resolved, spliced, compiled, measVars>>

\* .finally(() => { tagsLoaded++; if (tagsLoaded >= this.tags.length) resolve(this) })
FetchFinally ==
    \E t \in 1..Len(fetch) :
        /\ fetch[t] \in {"then", "caught"}
        /\ fetch' = [fetch EXCEPT ![t] = "settled"]
        /\ tagsLoaded' = tagsLoaded + 1
        /\ resolved' = (resolved \/ tagsLoaded + 1 >= Len(tags))
        /\ UNCHANGED <<tagVars, calls, checked, lines, tags, pc, depVars, spliced, compiled, measVars>>

(***************************************************************************)
(* build: once loadExternal's promise is resolved, tagLines runs.          *)
(***************************************************************************)
TagLines ==
    /\ pc = "loading"
    /\ resolved
    /\ lines' = tagLines(tags, lines)
    /\ pc' = "tagged"
    /\ UNCHANGED <<tagVars, calls, checked, tags, depVars, loadVars, compiled, measVars>>

(***************************************************************************)
(* The same call from one await to the next.  An async function runs up to *)
(* its first await within the call: the loop that builds `output`, and,    *)
(* when uglified is false, the rest of the body.  When uglified is true    *)
(* the call waits for terser.minify(output) and goes on when that settles; *)
(* other calls may start and settle in between.  output is a local of the  *)
(* call.                                                                   *)
(***************************************************************************)
\* one call of compile: the loop runs within the call; with uglified true the
\* call then waits for terser, holding its arguments and its output, and with
\* uglified false it runs to its end and returns
CallCompile(includedTagNames, uglified, beautified) ==
    LET o == compileOutput(tags, lines, includedTagNames)
        r == compileRest(o.output, uglified, beautified)
    IN IF uglified
       THEN /\ calls' = calls (+) SetToBag({[includedTagNames |-> includedTagNames,
                                             beautified |-> beautified,
                                             emitted |-> o.emitted,
                                             output |-> o.output]})
            /\ compiled' = compiled
       ELSE /\ compiled' = [called |-> TRUE, includedTagNames |-> includedTagNames,
                            uglified |-> uglified, beautified |-> beautified,
                            emitted |-> o.emitted, ok |-> r.ok, text |-> r.text]
            /\ calls' = calls

MaxCalls == 2    \* compile calls waiting for terser at one time

\* the included-tag lists of the model: registry names, in registry order
RECURSIVE SubSeqs(_)
SubSeqs(array) ==
    IF array = <<>> THEN {<<>>}
    ELSE LET rest == SubSeqs(Tail(array))
         IN rest \cup {<<Head(array)>> \o r : r \in rest}

\* a caller of the tagged script calls compile
CompileCall ==
    /\ pc \in {"tagged", "measuring", "measured"}
    /\ \E includedTagNames \in SubSeqs([t \in 1..Len(tags) |-> tags[t].name]),
          uglified \in BOOLEAN, beautified \in BOOLEAN :
          /\ uglified => BagCardinality(calls) < MaxCalls
          /\ CallCompile(includedTagNames, uglified, beautified)
    /\ UNCHANGED <<lines, tags, pc, depVars, loadVars, measVars, tagVars, checked>>

CompileSettleSharedOutput ==
    /\ \E call \in BagToSet(calls), other \in BagToSet(calls) :
          LET r == compileRest(other.output, TRUE, call.beautified)
          IN /\ compiled' = [called |-> TRUE, includedTagNames |-> call.includedTagNames,
                             uglified |-> TRUE, beautified |-> call.beautified,
                             emitted |-> call.emitted, ok |-> r.ok, text |-> r.text]
             /\ calls' = calls (-) SetToBag({call})
    /\ UNCHANGED <<lines, tags, pc, depVars, loadVars, measVars, tagVars, checked>>

\* terser.minify has settled for one of the waiting calls, which runs to its end
CompileSettle ==
    /\ \E call \in BagToSet(calls) :
          LET r == compileRest(call.output, TRUE, call.beautified)
          IN /\ compiled' = [called |-> TRUE, includedTagNames |-> call.includedTagNames,
                             uglified |-> TRUE, beautified |-> call.beautified,
                             emitted |-> call.emitted, ok |-> r.ok, text |-> r.text]
             /\ calls' = calls (-) SetToBag({call})
    /\ UNCHANGED <<lines, tags, pc, depVars, loadVars, measVars, tagVars, checked>>

(***************************************************************************)
(* The Builder page of a built script: a row with a box per tag, the boxes *)
(* kept in the object tagBoxes under the name of the tag, and the Compile  *)
(* Script button, whose handler walks the registry and hands the list it   *)
(* has so far to dependencies as `output`.  A box is the row it stands in; *)
(* `checked` holds the rows whose box is checked.                          *)
(***************************************************************************)
RECURSIVE tagBoxesFrom(_, _, _)
tagBoxesFrom(tgs, name, t) ==
    IF t = 0 THEN 0
    ELSE IF String(tgs[t].name) = String(name) THEN t
    ELSE tagBoxesFrom(tgs, name, t - 1)

\* tagBoxes[name]: property keys are strings, and the box stored last under
\* a key is the one the object holds
tagBoxes(tgs, name) == tagBoxesFrom(tgs, name, Len(tgs))

RECURSIVE includedTagsFromForgets(_, _, _, _)
includedTagsFromForgets(tgs, boxes, t, includedTagNames) ==
    IF t > Len(tgs) THEN includedTagNames
    ELSE includedTagsFromForgets(tgs, boxes, t + 1,
            IF tagBoxes(tgs, tgs[t].name) \in boxes
            THEN dependencies(tgs, TRUE, t, <<>>)
            ELSE includedTagNames)

RECURSIVE includedTagsFrom(_, _, _, _)
\* for (const tag of script.tags) if (tagBoxes[tag.name].checked)
\*     includedTagNames = tag.dependencies(true, tag, includedTagNames)
includedTagsFrom(tgs, boxes, t, includedTagNames) ==
    IF t > Len(tgs) THEN includedTagNames
    ELSE includedTagsFrom(tgs, boxes, t + 1,
            IF tagBoxes(tgs, tgs[t].name) \in boxes
            THEN dependencies(tgs, TRUE, t, includedTagNames)
            ELSE includedTagNames)

\* includedTagNames.map((tag) => tag.name)
includedTagNamesOf(tgs, boxes) == names(tgs, includedTagsFrom(tgs, boxes, 1, <<>>))

\* the user checks or unchecks the box of a row
ToggleBox ==
    /\ pc = "measured"
    /\ \E t \in 1..Len(tags) :
          checked' = IF t \in checked THEN checked \ {t} ELSE checked \cup {t}
    /\ UNCHANGED <<lines, tags, pc, depVars, loadVars, compiled, measVars, tagVars, calls>>

MaxClicks == 1    \* clicks waiting for terser at one time

\* compileScriptButton.onclick, with the Uglify and Beautify boxes any way,
\* up to its await: the names are taken from the boxes as they are now and
\* compile is called with them; the download follows when the call returns
Click ==
    /\ pc = "measured"
    /\ \E uglified \in BOOLEAN, beautified \in BOOLEAN :
          /\ uglified => BagCardinality(calls) < MaxClicks
          /\ CallCompile(includedTagNamesOf(tags, checked), uglified, beautified)
    /\ UNCHANGED <<lines, tags, pc, depVars, loadVars, measVars, tagVars, checked>>

(***************************************************************************)
(* Script.measureTags, from one await to the next.                         *)
(***************************************************************************)
MaxRuns == 2     \* measureTags calls on one script

sizes(tgs) == [t \in 1..Len(tgs) |-> tgs[t].size]

tagSizeAccumulated(tag, inclusive, exclusive) == tag.size + inclusive - exclusive

tagSizeSwapped(tag, inclusive, exclusive) == exclusive - inclusive

\* tag.size = inclusiveLength - exclusiveLength
tagSize(tag, inclusive, exclusive) == inclusive - exclusive

compileDefaultsOff == [uglified |-> FALSE, beautified |-> FALSE]

\* async compile(includedTagNames = [], uglified = true, beautified = false):
\* what a call that passes only the tag names runs with
compileDefaults == [uglified |-> TRUE, beautified |-> FALSE]

\* await this.compile(inclusiveTagNames), await this.compile(exclusiveTagNames)
measureCompile(tgs, ls, t, includeSelf) ==
    compile(tgs, ls, names(tgs, dependencies(tgs, includeSelf, t, <<>>)),
            compileDefaults.uglified, compileDefaults.beautified)

\* the record of such a call
measureCompileCall ==
    [called |-> TRUE, uglified |-> compileDefaults.uglified,
     beautified |-> compileDefaults.beautified]

\* a call of measureTags: with no tag the loop body never runs
MeasureCall ==
    /\ pc \in {"tagged", "measured"}
    /\ mruns < MaxRuns
    /\ prevSizes' = sizes(tags)
    /\ IF Len(tags) = 0
       THEN /\ pc' = "measured"
            /\ mruns' = mruns + 1
            /\ UNCHANGED <<mi, mstage, mcompile>>
       ELSE /\ pc' = "measuring"
            /\ mi' = 1
            /\ mstage' = "inclusive"
            /\ mruns' = mruns
            /\ mcompile' = measureCompileCall
    /\ UNCHANGED <<tagVars, calls, checked, lines, tags, depVars, loadVars, compiled, inclusiveLength>>

\* the inclusive compile has settled: a rejection rejects measureTags
MeasureInclusive ==
    /\ pc = "measuring"
    /\ mstage = "inclusive"
    /\ LET r == measureCompile(tags, lines, mi, TRUE)
       IN IF r.ok
          THEN /\ inclusiveLength' = Len(r.text)
               /\ mstage' = "exclusive"
               /\ pc' = pc
               /\ mcompile' = measureCompileCall
          ELSE /\ pc' = "rejected"
               /\ UNCHANGED <<inclusiveLength, mstage, mcompile>>
    /\ UNCHANGED <<tagVars, calls, checked, lines, tags, depVars, loadVars, compiled, mi, mruns, prevSizes>>

\* the exclusive compile has settled: the size is written and the loop goes on
MeasureExclusive ==
    /\ pc = "measuring"
    /\ mstage = "exclusive"
    /\ LET r == measureCompile(tags, lines, mi, FALSE)
       IN IF r.ok
          THEN /\ tags' = [tags EXCEPT ![mi].size = tagSize(tags[mi], inclusiveLength, Len(r.text))]
               /\ IF mi < Len(tags)
                  THEN /\ mi' = mi + 1
                       /\ mstage' = "inclusive"
                       /\ mcompile' = measureCompileCall
                       /\ UNCHANGED <<pc, mruns>>
                  ELSE /\ pc' = "measured"
                       /\ mruns' = mruns + 1
                       /\ mstage' = "idle"
                       /\ mi' = mi
                       /\ mcompile' = mcompile
          ELSE /\ pc' = "rejected"
               /\ UNCHANGED <<tags, mi, mstage, mruns, mcompile>>
    /\ UNCHANGED <<tagVars, calls, checked, lines, depVars, loadVars, compiled, inclusiveLength, prevSizes>>

(***************************************************************************)
(* The compiler specification: a script that defines the tags A and B and  *)
(* marks lines and blocks with them goes through build's getTags,          *)
(* loadExternal and tagLines; then compile is called on it.                *)
(***************************************************************************)
MaxBody == 3     \* lines after the tag definitions in the compiler specification

Set(code, property, tagName, mode) ==
    Line(code, Comment(<<"UTAGSET", property, tagName>> \o mode))

Code(code) == Line(code, Comment(<<>>))

CompilePool ==
    {Set("x=1; ", "START", "A", <<"OR">>),
     Set("", "START", "B", <<"AND">>), Set("", "START", "B", <<>>),
     Set("", "END", "A", <<"OR">>),
     Set("x=1; ", "LINE", "A", <<"OR">>), Set("y=2; ", "LINE", "B", <<"AND">>),
     Code("z=3; ")}

InitCompile ==
    /\ \E body \in SeqsUpTo(CompilePool, MaxBody) :
          lines = <<Def("DESC", "A", <<"feature", "A">>), Def("DESC", "B", <<>>)>> \o body
    /\ tags = <<>>
    /\ pc = "constructed"
    /\ DepIdle /\ LoadIdle /\ TagIdle /\ CompileIdle /\ MeasureIdle

\* the caller of this specification calls compile once and awaits it
CompileOnce == ~compiled.called /\ calls = EmptyBag /\ CompileCall

NextCompile == GetTags \/ LoadExternal \/ TagLines \/ CompileOnce \/ CompileSettle

SpecCompile == InitCompile /\ [][NextCompile]_vars

\* the associations of line i name the tag of that name
TagNameOf(lineTag) == tags[lineTag.tag].name

Emitted(i) == includes(compiled.emitted, i)

\* line i carries an AND association whose tag is not included
UnmetAnd(i, includedTagNames) ==
    \E k \in 1..Len(lines[i].tags) :
        /\ lines[i].tags[k].mode = AND
        /\ ~includes(includedTagNames, TagNameOf(lines[i].tags[k]))

\* C1: a line that carries an AND association whose tag is not included is
\* not emitted by compile, whatever its other associations.
C1_AndVeto ==
    compiled.called =>
        \A i \in 1..Len(lines) : UnmetAnd(i, compiled.includedTagNames) => ~Emitted(i)

\* compile with [A] has dropped a line tagged (A, OR) then (B, AND), and kept
\* another line tagged with A alone
C1_Witness ==
    /\ compiled.called
    /\ compiled.includedTagNames = <<Str("A")>>
    /\ \E i \in 1..Len(lines) :
          /\ Len(lines[i].tags) = 2
          /\ lines[i].tags[1].mode = OR /\ TagNameOf(lines[i].tags[1]) = Str("A")
          /\ lines[i].tags[2].mode = AND /\ TagNameOf(lines[i].tags[2]) = Str("B")
          /\ ~Emitted(i)
    /\ compiled.emitted # <<>>

\* the lines i, i+1, i+2 are a START X OR line, a code-only line and an
\* END X OR line, and no marker comes before them
IsSet(line, property, mode) ==
    /\ Len(line.comment) = 5
    /\ line.comment[1] = "UTAGSET"
    /\ line.comment[2] = property
    /\ line.comment[4] = mode

Block(i, X) ==
    /\ i + 2 <= Len(lines)
    /\ IsSet(lines[i], "START", "OR") /\ Str(lines[i].comment[3]) = X
    /\ lines[i + 1].comment = Comment(<<>>) /\ lines[i + 1].code # ""
    /\ IsSet(lines[i + 2], "END", "OR") /\ Str(lines[i + 2].comment[3]) = X
    /\ find(tags, X) # 0
    /\ \A j \in 1..(i - 1) : At(lines[j].comment, 0) # Str("UTAGSET")

\* C2: the three lines of a block START X OR / code / END X OR are all
\* emitted when X is included and none of them is when X is not.
C2_BlockInclusive ==
    compiled.called =>
        \A i \in 1..Len(lines) : \A X \in {tags[t].name : t \in 1..Len(tags)} :
            Block(i, X) =>
                IF includes(compiled.includedTagNames, X)
                THEN Emitted(i) /\ Emitted(i + 1) /\ Emitted(i + 2)
                ELSE ~Emitted(i) /\ ~Emitted(i + 1) /\ ~Emitted(i + 2)

\* compile with X included has emitted the three lines of such a block
C2_Witness ==
    /\ compiled.called
    /\ \E i \in 1..Len(lines) :
          /\ Block(i, Str("A"))
          /\ includes(compiled.includedTagNames, Str("A"))
          /\ Emitted(i) /\ Emitted(i + 2)

Untagged == SelectSeq([i \in 1..Len(lines) |-> i], LAMBDA i : lines[i].tags = <<>>)

\* C3 as stated: compile with the empty included set emits exactly the lines
\* without associations.
C3_Original ==
    (compiled.called /\ compiled.includedTagNames = <<>>) => compiled.emitted = Untagged

\* C3 as amended: compile with the empty included set emits no line at all:
\* lines with associations are omitted, and so are the lines without any.
C3_EmptySetEmitsNothing ==
    (compiled.called /\ compiled.includedTagNames = <<>>) =>
        /\ compiled.emitted = <<>>
        /\ compiled.ok
        /\ compiled.text = ""

\* compile with [] has run on a script with a line of untagged code and a
\* line tagged OR
C3_Witness ==
    /\ compiled.called
    /\ compiled.includedTagNames = <<>>
    /\ \E i, j \in 1..Len(lines) :
          /\ lines[i].tags = <<>> /\ lines[i].code # ""
          /\ Len(lines[j].tags) = 1 /\ lines[j].tags[1].mode = OR

(***************************************************************************)
(* The loader specification: a script whose tags may carry links goes      *)
(* through getTags and loadExternal; the fetches settle in any order.      *)
(***************************************************************************)
MaxLoad == 3     \* lines of a script in the loader specification

LoadPool ==
    {Def("LINK", "A", <<"a.js">>), Def("LINK", "B", <<"b.js">>), Def("DESC", "C", <<>>),
     Code("z=3; ")}

InitLoad ==
    /\ lines \in ScriptsUpTo(LoadPool, MaxLoad)
    /\ tags = <<>>
    /\ pc = "constructed"
    /\ DepIdle /\ LoadIdle /\ TagIdle /\ CompileIdle /\ MeasureIdle

NextLoad == GetTags \/ LoadExternal \/ FetchSucceed \/ FetchFail \/ FetchFinally \/ TagLines

SpecLoad == InitLoad /\ [][NextLoad]_vars

AllSettled == \A t \in 1..Len(fetch) : fetch[t] \in {"none", "settled"}

\* C7: once loadExternal has been called and every tag's fetch has settled,
\* its promise is resolved, whatever the number of tags and the outcomes.
C7_Completes ==
    (pc \in {"loading", "tagged"} /\ AllSettled) => resolved

(***************************************************************************)
(* The measurer specification: a script of tag definitions and tagged      *)
(* lines goes through the build up to measureTags, which may be called     *)
(* again.                                                                  *)
(***************************************************************************)
MaxLines == 4    \* lines of a script in the measurer specification

MeasurePool ==
    {Def("DESC", "A", <<>>), Def("REQU", "B", <<"A">>), Def("DESC", "REQUIRED", <<>>),
     Set("x=1; ", "LINE", "A", <<"OR">>), Set("y=2; ", "LINE", "B", <<"AND">>),
     Set("z=3; ", "LINE", "REQUIRED", <<"OR">>), Set("} ", "LINE", "B", <<"OR">>)}

InitMeasure ==
    /\ lines \in ScriptsUpTo(MeasurePool, MaxLines)
    /\ tags = <<>>
    /\ pc = "constructed"
    /\ DepIdle /\ LoadIdle /\ TagIdle /\ CompileIdle /\ MeasureIdle

NextMeasure ==
    GetTags \/ LoadExternal \/ TagLines \/ MeasureCall \/ MeasureInclusive \/ MeasureExclusive

SpecMeasure == InitMeasure /\ [][NextMeasure]_vars

\* length(compile(names)) as measureTags calls compile: with its defaults
CompiledLength(tagNames) == Len(compile(tags, lines, tagNames, TRUE, FALSE).text)

\* C8: after measureTags every tag's size is the length of compile of its
\* dependencies with itself minus that without itself; for a tag without
\* dependencies, the length of compile([T.name]) minus that of compile([]).
C8_SizeIsDifference ==
    pc = "measured" =>
        \A t \in 1..Len(tags) :
            /\ tags[t].size =
                  CompiledLength(names(tags, dependencies(tags, TRUE, t, <<>>)))
                  - CompiledLength(names(tags, dependencies(tags, FALSE, t, <<>>)))
            /\ dependencies(tags, TRUE, t, <<>>) = <<t>> =>
                  tags[t].size = CompiledLength(<<tags[t].name>>) - CompiledLength(<<>>)

\* measureTags has completed on a script where a tag with a dependency and a
\* tag without any both have lines of their own
C8_Witness ==
    /\ pc = "measured"
    /\ \E t, u \in 1..Len(tags) :
          /\ Len(dependencies(tags, TRUE, t, <<>>)) > 1
          /\ tags[t].size > 0
          /\ dependencies(tags, TRUE, u, <<>>) = <<u>>
          /\ tags[u].size > 0

\* C9: a second measureTags run in succession leaves every size as the
\* first run left it.
C9_Idempotent ==
    (pc = "measured" /\ mruns >= 2) => sizes(tags) = prevSizes

\* measureTags has completed twice on a script with a tag of nonzero size
C9_Witness ==
    /\ pc = "measured"
    /\ mruns = 2
    /\ \E t \in 1..Len(tags) : tags[t].size # 0

(***************************************************************************)
(* The rendering specification: a script whose lines may hold code that    *)
(* neither terser nor prettier parses is built, then compile is called on  *)
(* it with every choice of tags, minification and formatting.              *)
(***************************************************************************)
MaxRender == 3   \* lines after the tag definitions in the rendering specification

RenderPool ==
    {Set("x=1; ", "LINE", "A", <<"OR">>), Set("} ", "LINE", "A", <<"OR">>),
     Set("y=2; ", "LINE", "B", <<"OR">>), Set("} ", "LINE", "B", <<"AND">>),
     Code("z=3; ")}

InitRender ==
    /\ \E body \in SeqsUpTo(RenderPool, MaxRender) :
          lines = <<Def("DESC", "A", <<>>), Def("DESC", "B", <<>>)>> \o body
    /\ tags = <<>>
    /\ pc = "constructed"
    /\ DepIdle /\ LoadIdle /\ TagIdle /\ CompileIdle /\ MeasureIdle

NextRender == GetTags \/ LoadExternal \/ TagLines \/ CompileOnce \/ CompileSettle

SpecRender == InitRender /\ [][NextRender]_vars

\* the lines the last compile call emitted
Output == [k \in 1..Len(compiled.emitted) |-> lines[compiled.emitted[k]]]

\* terser was asked for and threw, or prettier was asked for and threw
TransformFailed ==
    \/ compiled.uglified /\ ~minify(Output).ok
    \/ compiled.beautified /\ ~format(Output, compiled.uglified).ok

\* C11: when compile is asked to minify and the minifier fails, or to format
\* and the formatter fails, the call fails and returns no text (never the
\* unminified or unformatted text), and it leaves the lines and the registry
\* of the script as they were.
C11_FailureReturnsNoText ==
    /\ [](compiled.called /\ TransformFailed => ~compiled.ok /\ compiled.text = "")
    /\ [][compiled' # compiled => lines' = lines /\ tags' = tags]_vars

\* a minifying compile has thrown on a stray brace after emitting a line
\* whose code would have made a text
C11_Witness ==
    /\ compiled.called /\ compiled.uglified /\ ~compiled.beautified
    /\ ~compiled.ok
    /\ \E k \in 1..Len(Output) : Output[k].code = "x=1; "
    /\ \E k \in 1..Len(Output) : Output[k].code = "} "

\* a formatting compile without minification has thrown as well
C11_FormatWitness ==
    /\ compiled.called /\ ~compiled.uglified /\ compiled.beautified
    /\ ~compiled.ok
    /\ \E k \in 1..Len(Output) : Output[k].code = "} "

(***************************************************************************)
(* The arguments of the compile calls of measureTags, in the measurer      *)
(* specification.                                                          *)
(***************************************************************************)
\* the names measureTags passes for the tag it is at
MeasuredNames(includeSelf) == names(tags, dependencies(tags, includeSelf, mi, <<>>))

\* C12 as stated: every compile call of measureTags runs with minification
\* and formatting disabled.
C12_Original ==
    mcompile.called => ~mcompile.uglified /\ ~mcompile.beautified

\* C12: every compile call of measureTags, inclusive and exclusive, for every
\* tag, passes the tag names alone and so runs with the defaults of compile:
\* minification enabled, formatting disabled; the inclusive length it keeps
\* is the length of the minified text.
C12_MeasuresMinified ==
    /\ mcompile.called => mcompile.uglified /\ ~mcompile.beautified
    /\ pc = "measuring" /\ mstage = "exclusive" =>
           /\ minify([k \in 1..Len(emittedLines(tags, lines, MeasuredNames(TRUE))) |->
                         lines[emittedLines(tags, lines, MeasuredNames(TRUE))[k]]]).ok
           /\ inclusiveLength = Len(compile(tags, lines, MeasuredNames(TRUE), TRUE, FALSE).text)

\* the inclusive compile of a tag has returned a minified text shorter than
\* the lines it was made of, and the exclusive compile is awaited
C12_Witness ==
    /\ pc = "measuring" /\ mstage = "exclusive"
    /\ mcompile.called
    /\ inclusiveLength > 0
    /\ inclusiveLength < Len(compile(tags, lines, MeasuredNames(TRUE), FALSE, FALSE).text)

(***************************************************************************)
(* The tagger specification: a script that defines the tags A and B and    *)
(* opens and closes blocks of them, with directives that name no tag of    *)
(* the registry or no known property among them, goes through tagLines one *)
(* line at a time.                                                         *)
(***************************************************************************)
MaxTagged == 4   \* lines after the tag definitions in the tagger specification

TagPool ==
    {Set("x=1; ", "START", "A", <<"OR">>), Set("", "START", "A", <<"AND">>),
     Set("", "START", "B", <<"AND">>), Set("", "END", "A", <<"OR">>),
     Set("y=2; ", "LINE", "Z", <<"OR">>), Set("y=2; ", "FOO", "A", <<>>),
     Code("z=3; ")}

InitTagger ==
    /\ \E body \in SeqsUpTo(TagPool, MaxTagged) :
          lines = <<Def("DESC", "A", <<>>), Def("DESC", "B", <<>>)>> \o body
    /\ tags = <<>>
    /\ pc = "constructed"
    /\ DepIdle /\ LoadIdle /\ TagIdle /\ CompileIdle /\ MeasureIdle

NextTagger == GetTags \/ LoadExternal \/ TagLinesCall \/ TagLinesStep \/ TagLinesReturn

SpecTagger == InitTagger /\ [][NextTagger]_vars

\* the stepwise loop returns what the function returns
TagMachineAgrees ==
    pc = "tagged" =>
        lines = tagLines(tags, [i \in 1..Len(lines) |-> [lines[i] EXCEPT !.tags = <<>>]])

\* the line the loop has just passed carries lineTag
Carries(line, lineTag) == \E k \in 1..Len(line.tags) : line.tags[k] = lineTag

\* C13: once the loop body has run on a line, the line carries every entry
\* that is then on the open-block stack, whatever its own comment holds; this
\* includes a UTAGSET directive with an unknown property or one that names a
\* tag the registry does not hold.
C13_StackAttached ==
    pc = "tagging" /\ ti >= 1 =>
        \A k \in 1..Len(tMultilineTags) : Carries(lines[ti], tMultilineTags[k])

\* the same for the lines whose directive, if any, names a tag of the registry
C13_KnownTagLines ==
    pc = "tagging" /\ ti >= 1
       /\ ~(At(lines[ti].comment, 0) = Str("UTAGSET") /\ find(tags, At(lines[ti].comment, 2)) = 0) =>
        \A k \in 1..Len(tMultilineTags) : Carries(lines[ti], tMultilineTags[k])

\* line is a UTAGSET directive of that property for the registry's tag t
Sets(line, property, t) ==
    /\ At(line.comment, 0) = Str("UTAGSET")
    /\ At(line.comment, 1) = Str(property)
    /\ t # 0
    /\ find(tags, At(line.comment, 2)) = t

\* no entry of the list is an association with the registry's tag t
Without(lineTags, t) ==
    \A k \in 1..Len(lineTags) : tags[lineTags[k].tag].name # tags[t].name

\* C14: the loop body on an END directive for a tag X removes every entry
\* named X from the open-block stack, however many START X are open and
\* whatever their modes, keeps the entries of the other tags in their order,
\* and gives the END line the association (X, mode of the END) before the
\* entries that remain; while no START X follows, the stack holds no entry
\* named X and a line gets an association with X only from its own directive.
C14_EndClosesAll ==
    [][pc = "tagging" /\ ti' = ti + 1 =>
          LET line == lines[ti + 1]
              after == lines'[ti + 1]
              X == find(tags, At(line.comment, 2))
          IN /\ Sets(line, "END", X) =>
                   /\ tMultilineTags' =
                         SelectSeq(tMultilineTags,
                                   LAMBDA e : tags[e.tag].name # tags[X].name)
                   /\ Without(tMultilineTags', X)
                   /\ after.tags = line.tags
                                   \o <<LineTag(X, Mode(At(line.comment, 3)))>>
                                   \o tMultilineTags'
             /\ \A t \in 1..Len(tags) :
                   Without(tMultilineTags, t) /\ ~Sets(line, "START", t) =>
                       /\ Without(tMultilineTags', t)
                       /\ ~Sets(line, "END", t) /\ ~Sets(line, "LINE", t) =>
                              Without(after.tags, t)
      ]_vars

\* an END A has closed two open blocks of A, one OR and one AND, and left the
\* open block of B between them on the stack
C14_Witness ==
    /\ pc = "tagging" /\ ti >= 4
    /\ Sets(lines[ti], "END", find(tags, Str("A")))
    /\ \E i, j, k \in 1..(ti - 1) :
          /\ i < k /\ k < j
          /\ Sets(lines[i], "START", find(tags, Str("A"))) /\ At(lines[i].comment, 3) = Str("OR")
          /\ Sets(lines[j], "START", find(tags, Str("A"))) /\ At(lines[j].comment, 3) = Str("AND")
          /\ Sets(lines[k], "START", find(tags, Str("B")))
    /\ tMultilineTags = <<LineTag(find(tags, Str("B")), AND)>>
    /\ lines[ti].tags = <<LineTag(find(tags, Str("A")), OR), LineTag(find(tags, Str("B")), AND)>>

(***************************************************************************)
(* The lines loadExternal splices in, in the loader specification.         *)
(***************************************************************************)
\* a line without its associations
Bare(line) == [line EXCEPT !.tags = <<>>]

\* the run one successful fetch adds: the markers around the fetched lines
Run(splice) ==
    <<Line("", <<"UTAGSET", "START", String(tags[splice.tag].name)>>)>>
    \o splice.script
    \o <<Line("", <<"UTAGSET", "END", String(tags[splice.tag].name)>>)>>

RECURSIVE Runs(_)
Runs(splices) == IF splices = <<>> THEN <<>> ELSE Run(Head(splices)) \o Runs(Tail(splices))

\* the number of runs of tag t
RunsOf(t) == Cardinality({k \in 1..Len(spliced) : spliced[k].tag = t})

\* the end region of the line sequence is the runs, one after the other
EndRegionIsRuns ==
    pc \in {"loading", "tagged"} =>
        /\ Len(Runs(spliced)) <= Len(lines)
        /\ [i \in 1..Len(Runs(spliced)) |->
               Bare(lines[Len(lines) - Len(Runs(spliced)) + i])] = Runs(spliced)

\* a fetch that succeeded has one run, one that failed or is pending has none
OneRunPerSuccess ==
    \A t \in 1..Len(fetch) :
        /\ fetch[t] = "then" => RunsOf(t) = 1
        /\ fetch[t] \in {"none", "pending", "caught"} => RunsOf(t) = 0
        /\ RunsOf(t) <= 1

\* the position in lines of line i of run k
RunStart(k) == Len(lines) - Len(Runs(SubSeq(spliced, k, Len(spliced))))

\* after tagLines, each fetched line carries its tag in a mode that is not AND
FetchedLinesTagged ==
    pc = "tagged" =>
        \A k \in 1..Len(spliced) : \A i \in 1..Len(spliced[k].script) :
            \E a \in 1..Len(lines[RunStart(k) + 1 + i].tags) :
                /\ lines[RunStart(k) + 1 + i].tags[a].tag = spliced[k].tag
                /\ lines[RunStart(k) + 1 + i].tags[a].mode # AND

\* the lines that are there keep their place, code and comment
LinesStay ==
    [][/\ Len(lines') >= Len(lines)
       /\ \A i \in 1..Len(lines) : Bare(lines'[i]) = Bare(lines[i])]_vars

\* C15: whatever the order in which the fetches complete, each linked tag
\* whose fetch succeeded contributes one contiguous run [START T, the fetched
\* lines of T, END T] to the end region of the lines, with no line of another
\* fetch inside; a failed fetch contributes nothing; the lines of the host
\* keep their positions and order; and after tagLines every fetched line of
\* T carries an association with T in the default (OR) mode.
C15_SplicedRuns ==
    /\ [](EndRegionIsRuns /\ OneRunPerSuccess /\ FetchedLinesTagged)
    /\ LinesStay

\* C16: the promise of loadExternal is not resolved while the fetch of a
\* linked tag is pending or its callbacks have not run: the counter reaches
\* the number of tags only after the last fetch has settled, so the lines
\* tagLines has run on are never extended by a splice.
C16_NoEarlyResolve ==
    /\ [](pc \in {"loading", "tagged"} /\ (resolved \/ tagsLoaded >= Len(tags))
             => AllSettled)
    /\ [](tagsLoaded = Cardinality({t \in 1..Len(fetch) : fetch[t] \in {"none", "settled"}}))
    /\ [][pc = "tagged" \/ pc' = "tagged" => Len(lines') = Len(lines)]_vars

\* tagLines has run on a script with an unlinked tag and two linked ones, of
\* which one fetch succeeded and one failed
C16_Witness ==
    /\ pc = "tagged"
    /\ resolved
    /\ \E t, u, v \in 1..Len(tags) :
          /\ tags[t].link = "" /\ tags[u].link # "" /\ tags[v].link # ""
          /\ RunsOf(u) = 1 /\ RunsOf(v) = 0

(***************************************************************************)
(* The calls specification: on a built script, compile is called while     *)
(* earlier calls still wait for terser and while measureTags runs.         *)
(***************************************************************************)
CallScripts ==
    {<<Def("DESC", "A", <<>>), Def("REQU", "B", <<"A">>),
       Set("x=1; ", "LINE", "A", <<"OR">>), Set("y=2; ", "LINE", "B", <<"AND">>)>>,
     <<Def("DESC", "A", <<>>), Def("DESC", "B", <<>>),
       Set("", "START", "B", <<"AND">>), Set("x=1; ", "LINE", "A", <<"OR">>),
       Set("} ", "LINE", "B", <<"OR">>)>>}

InitCalls ==
    /\ lines \in CallScripts
    /\ tags = <<>>
    /\ pc = "constructed"
    /\ DepIdle /\ LoadIdle /\ TagIdle /\ CompileIdle /\ MeasureIdle

\* build: await script.tagLines().measureTags(), the one call build makes
BuildMeasure == pc = "tagged" /\ MeasureCall

NextCalls ==
    \/ GetTags \/ LoadExternal \/ TagLines
    \/ BuildMeasure \/ MeasureInclusive \/ MeasureExclusive
    \/ CompileCall \/ CompileSettle

SpecCalls == InitCalls /\ [][NextCalls]_vars

\* the tags with their sizes blanked
Unsized(tgs) == [t \in 1..Len(tgs) |-> [tgs[t] EXCEPT !.size = 0]]

\* what the call that returned last would return if it ran alone, now
Alone ==
    compile(tags, lines, compiled.includedTagNames, compiled.uglified, compiled.beautified)

\* C17: compile leaves the lines and the registry of the script as they
\* were, and measureTags changes nothing but the size of tags; so a compile
\* call that other calls and measureTags interleaved with at its awaits
\* returns the text it returns when it runs alone.
C17_CompileReadsOnly ==
    /\ [](compiled.called =>
             /\ compiled.ok = Alone.ok
             /\ compiled.text = Alone.text
             /\ compiled.emitted = Alone.emitted)
    /\ [][calls' # calls \/ compiled' # compiled => lines' = lines /\ tags' = tags]_vars
    /\ [][measVars' # measVars =>
             /\ lines' = lines
             /\ Unsized(tags') = Unsized(tags)
             /\ calls' = calls /\ compiled' = compiled]_vars

\* a minifying call has returned a text while a call with another output
\* still waits for terser, after measureTags has written a size
C17_Witness ==
    /\ compiled.called /\ compiled.uglified /\ compiled.ok /\ compiled.text # ""
    /\ \E call \in BagToSet(calls) : call.emitted # compiled.emitted
    /\ \E t \in 1..Len(tags) : tags[t].size > 0

(***************************************************************************)
(* The page specification: scripts of tag definitions with a requirement   *)
(* between two tags, a shared requirement, a chain, a cycle, REQUIRED, and *)
(* a tag without a name next to a tag named "undefined" are built; then    *)
(* the user checks boxes and presses Compile Script.                       *)
(***************************************************************************)
PageScripts ==
    {<<Def("DESC", "B", <<>>), Def("REQU", "A", <<"B">>), Def("DESC", "REQUIRED", <<>>),
       Set("x=1; ", "LINE", "B", <<"OR">>)>>,
     <<Def("DESC", "C", <<>>), Def("REQU", "A", <<"C">>), Def("REQU", "B", <<"C">>)>>,
     <<Def("DESC", "A", <<>>), Def("REQU", "B", <<"A">>), Def("REQU", "A", <<"B">>),
       Def("DESC", "C", <<>>)>>,
     <<Def("DESC", "C", <<>>), Def("REQU", "B", <<"C">>), Def("REQU", "A", <<"B">>)>>,
     <<Def("DESC", "C", <<>>), Def("REQU", "A", <<"C">>), Def("REQU", "REQUIRED", <<"A">>)>>,
     <<Line("", Comment(<<"UTAGDEF">>)), Def("DESC", "undefined", <<>>),
       Def("DESC", "A", <<>>)>>}

InitPage ==
    /\ lines \in PageScripts
    /\ tags = <<>>
    /\ pc = "constructed"
    /\ DepIdle /\ LoadIdle /\ TagIdle /\ CompileIdle /\ MeasureIdle

NextPage ==
    \/ GetTags \/ LoadExternal \/ TagLines
    \/ BuildMeasure \/ MeasureInclusive \/ MeasureExclusive
    \/ ToggleBox \/ Click \/ CompileSettle

SpecPage == InitPage /\ [][NextPage]_vars

\* the tags the handler finds checked: those whose box in tagBoxes is checked
Checked == {t \in 1..Len(tags) : tagBoxes(tags, tags[t].name) \in checked}

\* the union, over the checked tags, of what dependencies(T, true) returns
UnionOfDependencies ==
    UNION {Range(names(tags, dependencies(tags, TRUE, t, <<>>))) : t \in Checked}

\* a step in which the handler calls compile: the call returns at once, or
\* one more call waits for terser
Clicked ==
    \/ calls' = calls /\ compiled' # compiled
    \/ BagCardinality(calls') > BagCardinality(calls)

\* the names that call was given
Passed ==
    IF calls' = calls THEN compiled'.includedTagNames
    ELSE LET new == CHOOSE call \in BagToSet(calls') :
                       CopiesIn(call, calls') > CopiesIn(call, calls)
         IN new.includedTagNames

\* C18: the handler of the Compile Script button, which feeds the result of
\* each dependencies(true, T, accumulator) call to the next one, passes
\* compile a list of names without duplicates whose set is the union over the
\* checked tags T of dependencies(T, true): every checked tag, every tag one
\* of them requires, directly or not, and REQUIRED when it is defined and a
\* box is checked.
C18_ClickIsUnion ==
    [][Clicked =>
          /\ NoDuplicates(Passed)
          /\ Range(Passed) = UnionOfDependencies
          /\ {tags[t].name : t \in Checked} \subseteq Range(Passed)
          /\ Range(Passed) =
                {tags[t].name : t \in
                    IF Checked = {} THEN {}
                    ELSE Closure(Checked \cup ({RequiredTag} \ {0}))}
      ]_vars

\* the button was pressed with Uglify on and two boxes checked, of a tag and
\* of the tag it requires, in a registry that defines REQUIRED: the call,
\* which has returned since, was given each of the two once and REQUIRED
C18_Witness ==
    /\ compiled.called /\ compiled.uglified
    /\ Cardinality(Checked) = 2
    /\ \E t, u \in Checked : t # u /\ u \in Required(t)
    /\ RequiredTag # 0 /\ RequiredTag \notin Checked
    /\ Len(compiled.includedTagNames) = 3
    /\ Range(compiled.includedTagNames) = UnionOfDependencies

\* the box of the tag named "undefined" is the box of the tag without a name
\* as well: with that one box checked, both tags were passed to compile
C18_SharedBoxWitness ==
    /\ compiled.called
    /\ Cardinality(checked) = 1
    /\ compiled.includedTagNames = <<Undefined, Str("undefined")>>

(***************************************************************************)
(* The inclusion decision as a function of the associations of a line, in  *)
(* the compiler specification.                                             *)
(***************************************************************************)
\* the set of (tag name, AND or not) pairs of a list of associations
Associations(lineTags) ==
    {<<tags[lineTags[k].tag].name, lineTags[k].mode = AND>> : k \in 1..Len(lineTags)}

\* the decision the claim gives for a set of pairs
Decision(associations, includedTagNames) ==
    /\ \E a \in associations : includes(includedTagNames, a[1])
    /\ ~\E a \in associations : a[2] /\ ~includes(includedTagNames, a[1])

Reverse(array) == [i \in 1..Len(array) |-> array[Len(array) + 1 - i]]

\* C19: whether compile emits a line depends on the set of its (tag, mode)
\* associations alone: it is emitted iff some association has its tag in the
\* included set and no AND association has its tag outside it.  Neither the
\* order of the associations nor a repetition of them (tagLines run a second
\* time) changes the decision.
C19_DecisionBySet ==
    compiled.called =>
        /\ \A i \in 1..Len(lines) :
              /\ Emitted(i) <=>
                    Decision(Associations(lines[i].tags), compiled.includedTagNames)
              /\ Emitted(i) <=>
                    includeLine(tags, [lines[i] EXCEPT !.tags = Reverse(@)],
                                compiled.includedTagNames)
        /\ \A i, j \in 1..Len(lines) :
              Associations(lines[i].tags) = Associations(lines[j].tags) =>
                  (Emitted(i) <=> Emitted(j))
        /\ emittedLines(tags, tagLines(tags, lines), compiled.includedTagNames)
              = compiled.emitted

\* compile with [A, B] has emitted two lines that carry the same two
\* associations in opposite orders, and compile with [A] has dropped them
C19_Witness ==
    /\ compiled.called
    /\ \E i, j \in 1..Len(lines) :
          /\ Len(lines[i].tags) = 2 /\ Len(lines[j].tags) = 2
          /\ lines[i].tags # lines[j].tags
          /\ lines[i].tags[1].mode = AND /\ lines[j].tags[2].mode = AND
          /\ Associations(lines[i].tags) = Associations(lines[j].tags)
          /\ Emitted(i) /\ Emitted(j)
          /\ ~includeLine(tags, lines[i], <<Str("A")>>)
          /\ ~includeLine(tags, lines[j], <<Str("A")>>)

\* the included lists of the model that hold every name of includedTagNames
Supersets(includedTagNames) ==
    {more \in SubSeqs([t \in 1..Len(tags) |-> tags[t].name]) :
        Range(includedTagNames) \subseteq Range(more)}

\* the length of the text compile returns without minification or formatting
RawLength(includedTagNames) ==
    Len(compile(tags, lines, includedTagNames, FALSE, FALSE).text)

\* C20: compile is monotone in the included set: a line emitted with S is
\* emitted with every S' that contains S; so without minification and
\* formatting the text never gets shorter when tags are added, and the
\* inclusive length of a tag is never below its exclusive length.
C20_Monotone ==
    compiled.called =>
        /\ \A more \in Supersets(compiled.includedTagNames) :
              /\ \A i \in 1..Len(lines) :
                    Emitted(i) => includeLine(tags, lines[i], more)
              /\ RawLength(more) >= RawLength(compiled.includedTagNames)
        /\ \A t \in 1..Len(tags) :
              RawLength(names(tags, dependencies(tags, TRUE, t, <<>>)))
                 - RawLength(names(tags, dependencies(tags, FALSE, t, <<>>))) >= 0

\* compile with [A] has emitted a line, and adding B to the list brings in a
\* line that an AND association with B kept out
C20_Witness ==
    /\ compiled.called
    /\ compiled.includedTagNames = <<Str("A")>>
    /\ \E i \in 1..Len(lines) : Emitted(i)
    /\ \E i \in 1..Len(lines) :
          /\ ~Emitted(i)
          /\ UnmetAnd(i, <<Str("A")>>)
          /\ lines[i].code # ""
          /\ includeLine(tags, lines[i], <<Str("A"), Str("B")>>)
    /\ RawLength(<<Str("A"), Str("B")>>) > RawLength(<<Str("A")>>)
====
